---- MODULE Spec2Model ----
(***************************************************************************)
(* Model of ripple_effect_csp.py: the compiler from a Ripple Effect board  *)
(* and room list to a CSP instance (variables, room all-different tables,  *)
(* pairwise spatial-separation tables).                                    *)
(*                                                                         *)
(* Coordinates, list positions and Python indices are 0-based as in the    *)
(* source; TLA+ sequences are 1-based, so a Python list s read at index p  *)
(* is s[p + 1].                                                            *)
(***************************************************************************)
EXTENDS Integers, Sequences, FiniteSets, TLC

VARIABLES board, rooms, pc, err, var_array, room_cons, space_cons, csp

vars == <<board, rooms, pc, err, var_array, room_cons, space_cons, csp>>

\* ------------------------------------------------------------------ bounds
\* The logical grid has at most MaxCells cells (N * M <= MaxCells).
MaxCells == 4
\* Clues on the board are drawn from 0..MaxClue (0 = no clue).
MaxClue == 2
\* At most MaxGiven cells of a board carry a clue.
MaxGiven == 2

\* ------------------------------------------------------- general helpers
Range(s) == {s[x] : x \in DOMAIN s}

Abs(x) == IF x < 0 THEN -x ELSE x

SetMax(S) == CHOOSE x \in S : \A y \in S : y <= x

RECURSIVE Factorial(_)
Factorial(n) == IF n <= 0 THEN 1 ELSE n * Factorial(n - 1)

\* Concatenation of a sequence of sequences, in order.
RECURSIVE Flatten(_)
Flatten(ss) == IF ss = <<>> THEN <<>> ELSE Head(ss) \o Flatten(Tail(ss))

\* ------------------------------------------------------ Python list model
\* A separator marker of the raw board (' ', '-' or '|'): a value that is
\* not 0 and not a positive integer.
Sep == -1

\* s[p] on a Python list of length len is defined for -len <= p < len.
InRange(p, len) == -len <= p /\ p < len

\* The position that a valid Python index p denotes (negative indices count
\* from the end of the list).
PyIndex(p, len) == IF p < 0 THEN p + len ELSE p

\* list.remove(x): drops the first occurrence of x (the caller has checked
\* that x occurs; Python raises ValueError otherwise).
ListRemove(s, x) ==
  LET p == CHOOSE q \in 1..Len(s) : s[q] = x /\ \A r \in 1..(q - 1) : s[r] # x
  IN  SubSeq(s, 1, p - 1) \o SubSeq(s, p + 1, Len(s))

\* list.insert(p, x) for p >= 0: x goes before position p, or at the end when
\* p is not less than the length.
ListInsert(s, p, x) ==
  IF p >= Len(s) THEN Append(s, x)
  ELSE SubSeq(s, 1, p) \o <<x>> \o SubSeq(s, p + 1, Len(s))

\* itertools.permutations(s): every ordering of the positions of s, in
\* lexicographic order of positions.
RECURSIVE permutations(_)
permutations(s) ==
  IF s = <<>> THEN << <<>> >>
  ELSE Flatten([p \in 1..Len(s) |->
         LET rest == permutations(SubSeq(s, 1, p - 1) \o SubSeq(s, p + 1, Len(s)))
         IN  [q \in 1..Len(rest) |-> <<s[p]>> \o rest[q]]])

\* itertools.product(range(lo, lo + n), repeat=2), in lexicographic order.
Product2(lo, n) ==
  [x \in 1..(n * n) |-> <<lo + ((x - 1) \div n), lo + ((x - 1) % n)>>]

\* ------------------------------------------- cspbase (Variable, Constraint, CSP)
\* Variable(name): unassigned, empty domain.
Variable(name) == [name |-> name, domain |-> <<>>, assigned |-> FALSE, value |-> 0]

add_domain_values(var, values) == [var EXCEPT !.domain = @ \o values]

assign(var, val) == [var EXCEPT !.assigned = TRUE, !.value = val]

is_assigned(var) == var.assigned

get_assigned_value(var) == var.value

\* Constraint(name, scope): scope is the ordered list of variables, held by
\* identity (the variable's name); the table starts empty.
Constraint(name, scope) == [name |-> name, scope |-> scope, sat_tuples |-> <<>>]

add_satisfying_tuples(con, tuples) == [con EXCEPT !.sat_tuples = @ \o tuples]

\* The satisfying-tuple table of a constraint, as the unordered set it is.
Table(con) == Range(con.sat_tuples)

\* CSP(name) and its three registration operations.
CSP(name) == [name |-> name, vars |-> <<>>, rooms |-> <<>>, cons |-> <<>>]

add_var(c, var) == [c EXCEPT !.vars = Append(@, var.name)]

add_room(c, room) == [c EXCEPT !.rooms = Append(@, room)]

add_constraint(c, con) == [c EXCEPT !.cons = Append(@, con)]

\* ------------------------------------------------------------ board size
\* M = (len(board[0]) + 1) // 2, N = (len(board) + 1) // 2
Width(b) == (Len(b[1]) + 1) \div 2

Height(b) == (Len(b) + 1) \div 2

Grid(N, M) == (0..(N - 1)) \X (0..(M - 1))

\* "V{i},{j}"
VarName(i, j) == <<i, j>>

NoError == [type |-> "none", where |-> "none"]

Raised(type, where) == [type |-> type, where |-> where]

\* ---------------------------------------------------------- make_variable
\* A mutant of BoardValue: the logical coordinates index the raw board
\* without being doubled.
BoardValueUndoubled(b, i, j) ==
  LET row == b[PyIndex(i, Len(b)) + 1]
  IN  row[PyIndex(j, Len(row)) + 1]

\* val = board[i * 2][j * 2], once both indices are known to be valid.
BoardValue(b, i, j) ==
  LET row == b[PyIndex(i * 2, Len(b)) + 1]
  IN  row[PyIndex(j * 2, Len(row)) + 1]

\* board[i * 2][j * 2] raises IndexError unless both indices are valid.
BoardIndexOk(b, i, j) ==
  /\ InRange(i * 2, Len(b))
  /\ InRange(j * 2, Len(b[PyIndex(i * 2, Len(b)) + 1]))

\* The body of the inner loop for one cell of a room of max_domain cells;
\* st = [va, err] is the grid so far and the exception raised, if any.
VisitCell(st, cell, max_domain, b, M, N) ==
  LET i == cell[1]
      j == cell[2]
  IN  IF ~(InRange(i, N) /\ InRange(j, M))
      THEN [st EXCEPT !.err = Raised("IndexError", "make_variable")]
      ELSE
        LET c  == VarName(PyIndex(i, N), PyIndex(j, M))
            v1 == add_domain_values(st.va[c], [n \in 1..max_domain |-> n])
        IN  IF ~BoardIndexOk(b, i, j)
            THEN [va |-> [st.va EXCEPT ![c] = v1],
                  err |-> Raised("IndexError", "make_variable")]
            ELSE
              LET val == BoardValue(b, i, j)
              IN  IF val # 0
                  THEN [st EXCEPT !.va[c] = [assign(v1, val) EXCEPT !.domain = <<val>>]]
                  ELSE [st EXCEPT !.va[c] = v1]

RECURSIVE VisitRoom(_, _, _, _, _, _)
VisitRoom(st, room, p, b, M, N) ==
  IF p > Len(room) \/ st.err # NoError THEN st
  ELSE VisitRoom(VisitCell(st, room[p], Len(room), b, M, N), room, p + 1, b, M, N)

RECURSIVE VisitRooms(_, _, _, _, _, _)
VisitRooms(st, rs, k, b, M, N) ==
  IF k > Len(rs) \/ st.err # NoError THEN st
  ELSE VisitRooms(VisitRoom(st, rs[k], 1, b, M, N), rs, k + 1, b, M, N)

\* make_variable(board, rooms, M, N): the N x M grid of variables, or the
\* exception that ended the construction (with the grid as it was then).
make_variable(b, rs, M, N) ==
  VisitRooms([va |-> [c \in Grid(N, M) |-> Variable(VarName(c[1], c[2]))], err |-> NoError],
             rs, 1, b, M, N)

\* -------------------------------------------------------- room_constraint
\* scope.append(var_array[i][j]) for every (i, j) of the room: the variables
\* are held by identity, so a negative index yields the variable it denotes.
RoomScope(room, M, N) ==
  [p \in 1..Len(room) |-> VarName(PyIndex(room[p][1], N), PyIndex(room[p][2], M))]

RoomScopeOk(room, M, N) ==
  \A p \in 1..Len(room) : InRange(room[p][1], N) /\ InRange(room[p][2], M)

\* The loop over enumerate(scope): st = [found, it, err]; an assigned
\* variable adds (i, value) to found and its value leaves the pool it, and
\* it.remove raises ValueError when the value is not in the pool.
RECURSIVE FindAssigned(_, _, _, _)
FindAssigned(va, scope, p, st) ==
  IF p > Len(scope) \/ st.err # NoError THEN st
  ELSE
    LET var == va[scope[p]]
    IN  IF is_assigned(var)
        THEN IF get_assigned_value(var) \in Range(st.it)
             THEN FindAssigned(va, scope, p + 1,
                    [st EXCEPT !.found = Append(@, <<p - 1, get_assigned_value(var)>>),
                               !.it = ListRemove(@, get_assigned_value(var))])
             ELSE [st EXCEPT !.err = Raised("ValueError", "room_constraint")]
        ELSE FindAssigned(va, scope, p + 1, st)

\* A mutant of InsertFound: the recorded values are appended after the
\* permuted ones instead of being inserted at their positions.
RECURSIVE InsertFoundAtEnd(_, _)
InsertFoundAtEnd(tuples, found) ==
  IF found = <<>> THEN tuples
  ELSE InsertFoundAtEnd([q \in 1..Len(tuples) |-> Append(tuples[q], Head(found)[2])],
                        Tail(found))

\* for i, val in found: for tup in sat_tuples: tup.insert(i, val)
RECURSIVE InsertFound(_, _)
InsertFound(tuples, found) ==
  IF found = <<>> THEN tuples
  ELSE InsertFound([q \in 1..Len(tuples) |->
                      ListInsert(tuples[q], Head(found)[1], Head(found)[2])],
                   Tail(found))

\* "C{k}"
RoomConName(k) == <<"C", k>>

\* room_constraint(var_array, room, k): [con, err], the all-different
\* constraint of the k-th room or the exception raised.
room_constraint(va, room, k, M, N) ==
  IF ~RoomScopeOk(room, M, N)
  THEN [con |-> Constraint(RoomConName(k), <<>>),
        err |-> Raised("IndexError", "room_constraint")]
  ELSE
    LET scope == RoomScope(room, M, N)
        st    == FindAssigned(va, scope, 1,
                   [found |-> <<>>, it |-> [n \in 1..Len(room) |-> n], err |-> NoError])
    IN  IF st.err # NoError
        THEN [con |-> Constraint(RoomConName(k), scope), err |-> st.err]
        ELSE [con |-> add_satisfying_tuples(Constraint(RoomConName(k), scope),
                        InsertFound(permutations(st.it), st.found)),
              err |-> NoError]

\* [room_constraint(var_array, room, k+1) for k, room in enumerate(rooms)]:
\* st = [cons, err]; the first exception ends the comprehension.
RECURSIVE RoomConstraintsFrom(_, _, _, _, _, _)
RoomConstraintsFrom(st, va, rs, k, M, N) ==
  IF k > Len(rs) \/ st.err # NoError THEN st
  ELSE LET r == room_constraint(va, rs[k], k, M, N)
       IN  RoomConstraintsFrom(
             IF r.err = NoError THEN [st EXCEPT !.cons = Append(@, r.con)]
             ELSE [st EXCEPT !.err = r.err],
             va, rs, k + 1, M, N)

\* ------------------------------------------------------- space_constraint
\* for t in zip(range(lo, hi + 1), range(lo, hi + 1)): tuples.remove(t)
RECURSIVE RemoveDiagonal(_, _, _)
RemoveDiagonal(tuples, lo, hi) ==
  IF lo > hi THEN tuples
  ELSE RemoveDiagonal(ListRemove(tuples, <<lo, lo>>), lo + 1, hi)

\* A mutant of n_dist_tuples: the equal pair (d, d) stays admissible at
\* distance d (the diagonal is removed from d + 1 on).
n_dist_tuples_late(max_rsize) ==
  [d \in 1..max_rsize |-> RemoveDiagonal(Product2(1, max_rsize), d + 1, max_rsize)]

\* n_dist_tuples[n] for n = d - 1 in range(max_rsize): all pairs over
\* 1..max_rsize but the equal pairs (v, v) with n + 1 <= v <= max_rsize.
n_dist_tuples(max_rsize) ==
  [d \in 1..max_rsize |-> RemoveDiagonal(Product2(1, max_rsize), d, max_rsize)]

\* 'C-{}:{}'.format(var1.name, var2.name)
make_constraint(var1, var2) ==
  Constraint(<<"C-", var1.name, var2.name>>, <<var1.name, var2.name>>)

\* A mutant of AxisPairs: each unordered pair once (a < b only).
AxisPairsOnce(len) == SelectSeq(Product2(0, len), LAMBDA ab : ab[1] < ab[2])

\* itertools.product(range(len), repeat=2): the index pairs (a, b) swept
\* along one row or column.
AxisPairs(len) == Product2(0, len)

\* for n in range(max_rsize): if abs(a - b) == n + 1: one constraint over
\* (first, second) with the table of distance n + 1.
PairCons(first, second, a, b, max_rsize, T) ==
  Flatten([d \in 1..max_rsize |->
    IF Abs(a - b) = d
    THEN <<add_satisfying_tuples(make_constraint(first, second), T[d])>>
    ELSE <<>>])

\* The row sweep: for i in range(N): for a, b in product(range(M), repeat=2)
RowCons(va, max_rsize, M, N, T) ==
  Flatten([x \in 1..N |->
    LET i == x - 1
        pairs == AxisPairs(M)
    IN  Flatten([q \in 1..Len(pairs) |->
          PairCons(va[VarName(i, pairs[q][1])], va[VarName(i, pairs[q][2])],
                   pairs[q][1], pairs[q][2], max_rsize, T)])])

\* The column sweep: for i in range(M): for a, b in product(range(N), repeat=2)
ColCons(va, max_rsize, M, N, T) ==
  Flatten([x \in 1..M |->
    LET i == x - 1
        pairs == AxisPairs(N)
    IN  Flatten([q \in 1..Len(pairs) |->
          PairCons(va[VarName(pairs[q][1], i)], va[VarName(pairs[q][2], i)],
                   pairs[q][1], pairs[q][2], max_rsize, T)])])

\* space_constraint(var_array, max_rsize, M, N): every row constraint, then
\* every column constraint.
space_constraint(va, max_rsize, M, N) ==
  LET T == n_dist_tuples(max_rsize)
  IN  RowCons(va, max_rsize, M, N, T) \o ColCons(va, max_rsize, M, N, T)

\* A mutant of MaxRoomSize: the smallest room size instead of the largest.
MinRoomSize(rs) == -SetMax({-Len(rs[k]) : k \in 1..Len(rs)})

\* max([len(room) for room in rooms])
MaxRoomSize(rs) == SetMax({Len(rs[k]) : k \in 1..Len(rs)})

\* ------------------------------------------------ ripple_effect_csp_model
\* for row in var_array: for var in row: the variables in row-major order.
RowMajor(va, M, N) ==
  Flatten([x \in 1..N |-> [y \in 1..M |-> va[VarName(x - 1, y - 1)]]])

\* for var in row: csp.add_var(var)
RECURSIVE AddVars(_, _)
AddVars(c, vs) == IF vs = <<>> THEN c ELSE AddVars(add_var(c, Head(vs)), Tail(vs))

\* for room in rooms: csp.add_room(room)
RECURSIVE AddRooms(_, _)
AddRooms(c, rs) == IF rs = <<>> THEN c ELSE AddRooms(add_room(c, Head(rs)), Tail(rs))

\* for cons in ...: csp.add_constraint(cons)
RECURSIVE AddConstraints(_, _)
AddConstraints(c, cs) ==
  IF cs = <<>> THEN c ELSE AddConstraints(add_constraint(c, Head(cs)), Tail(cs))

\* A mutant of Assemble: the spatial constraints are registered before the
\* room constraints.
AssembleSpaceFirst(va, rs, rcons, scons, M, N) ==
  LET c1 == AddVars(CSP("Ripple_Effect"), RowMajor(va, M, N))
      c2 == AddRooms(c1, rs)
      c3 == AddConstraints(c2, scons)
  IN  AddConstraints(c3, rcons)

\* The registration into a new CSP: variables, rooms, room constraints,
\* spatial constraints.
Assemble(va, rs, rcons, scons, M, N) ==
  LET c1 == AddVars(CSP("Ripple_Effect"), RowMajor(va, M, N))
      c2 == AddRooms(c1, rs)
      c3 == AddConstraints(c2, rcons)
  IN  AddConstraints(c3, scons)

\* ------------------------------------------------------------------ inputs
\* The logical grid shapes (N rows, M columns) within the bound.
Shapes == {sh \in (1..MaxCells) \X (1..MaxCells) : sh[1] * sh[2] <= MaxCells}

\* The k-th cell (k = 1..N*M) of an N x M grid in row-major order.
CellOf(k, M) == <<(k - 1) \div M, (k - 1) % M>>

\* The raw board of an N x M puzzle: clue (or 0) at the even positions
\* (2i, 2j), separator markers elsewhere.
RawBoard(N, M, clue) ==
  [r \in 1..(2 * N - 1) |->
    [c \in 1..(2 * M - 1) |->
      IF r % 2 = 1 /\ c % 2 = 1
      THEN clue[((r - 1) \div 2) * M + ((c - 1) \div 2) + 1]
      ELSE Sep]]

\* The clue placements: at most MaxGiven cells carry a clue in 1..MaxClue.
Clues(n) ==
  {cl \in [1..n -> 0..MaxClue] : Cardinality({k \in 1..n : cl[k] # 0}) <= MaxGiven}

\* The partitions of the cells 1..n, as room labels: cell 1 is in room 1 and
\* each cell is in a room already begun or begins the next one.
Labelings(n) ==
  {lab \in [1..n -> 1..n] :
     /\ lab[1] = 1
     /\ \A k \in 2..n : lab[k] <= SetMax({lab[x] : x \in 1..(k - 1)}) + 1}

\* The room list of a labelling: room r holds its cells in row-major order.
RoomsOf(lab, n, M) ==
  [r \in 1..SetMax(Range(lab)) |->
    LET ks == SelectSeq([k \in 1..n |-> k], LAMBDA k : lab[k] = r)
    IN  [p \in 1..Len(ks) |-> CellOf(ks[p], M)]]

\* Coordinates outside the N x M grid, one step beyond the range in which a
\* Python index is valid.
Strays(N, M) == ((-(N + 1))..N) \X ((-(M + 1))..M) \ Grid(N, M)

NoStray == <<>>

\* The room list handed to the compiler: the partition, or the partition
\* with one coordinate outside the grid added to its first room.
WithStray(rs, s) == IF s = NoStray THEN rs ELSE [rs EXCEPT ![1] = Append(@, s)]

\* The inputs over an N x M grid: a clue placement with the partition as it
\* is, or a board without clues with a stray coordinate in the first room.
Inputs(N, M) ==
  {<<cl, NoStray>> : cl \in Clues(N * M)}
    \cup {<<[k \in 1..(N * M) |-> 0], s>> : s \in Strays(N, M)}

Init ==
  \E sh \in Shapes :
    \E lab \in Labelings(sh[1] * sh[2]), in \in Inputs(sh[1], sh[2]) :
      /\ board = RawBoard(sh[1], sh[2], in[1])
      /\ rooms = WithStray(RoomsOf(lab, sh[1] * sh[2], sh[2]), in[2])
      /\ pc = "start"
      /\ err = NoError
      /\ var_array = <<>>
      /\ room_cons = <<>>
      /\ space_cons = <<>>
      /\ csp = CSP("")

\* ----------------------------------------------------------------- actions
\* Line 33: var_array = make_variable(initial_RP_board, rooms, M, N)
MakeVariable ==
  /\ pc = "start"
  /\ LET r == make_variable(board, rooms, Width(board), Height(board))
     IN  /\ var_array' = r.va
         /\ err' = r.err
         /\ pc' = IF r.err = NoError THEN "made_variables" ELSE "raised"
  /\ UNCHANGED <<board, rooms, room_cons, space_cons, csp>>

\* Line 37: room_cons = [room_constraint(...) for k, room in enumerate(rooms)]
RoomConstraints ==
  /\ pc = "made_variables"
  /\ LET r == RoomConstraintsFrom([cons |-> <<>>, err |-> NoError], var_array, rooms, 1,
                                  Width(board), Height(board))
     IN  /\ room_cons' = r.cons
         /\ err' = r.err
         /\ pc' = IF r.err = NoError THEN "made_room_cons" ELSE "raised"
  /\ UNCHANGED <<board, rooms, var_array, space_cons, csp>>

\* Lines 39-40: max_rsize and space_cons = space_constraint(...)
SpaceConstraints ==
  /\ pc = "made_room_cons"
  /\ space_cons' = space_constraint(var_array, MaxRoomSize(rooms), Width(board), Height(board))
  /\ pc' = "made_space_cons"
  /\ UNCHANGED <<board, rooms, err, var_array, room_cons, csp>>

\* Lines 43-57: the registration into the CSP, and the return.
Return ==
  /\ pc = "made_space_cons"
  /\ csp' = Assemble(var_array, rooms, room_cons, space_cons, Width(board), Height(board))
  /\ pc' = "returned"
  /\ UNCHANGED <<board, rooms, err, var_array, room_cons, space_cons>>

Next == MakeVariable \/ RoomConstraints \/ SpaceConstraints \/ Return

Spec == Init /\ [][Next]_vars

\* ------------------------------------------------------------- properties
Rows == Height(board)

Cols == Width(board)

\* The board entry of logical cell (i, j), at raw position (2i, 2j).
ClueAt(cell) == board[2 * cell[1] + 1][2 * cell[2] + 1]

\* Some room names a coordinate outside the logical grid.
HasStray == \E k \in 1..Len(rooms) : \E p \in 1..Len(rooms[k]) : rooms[k][p] \notin Grid(Rows, Cols)

\* The rooms partition the logical grid: every listed coordinate is a grid
\* cell and every grid cell is listed exactly once.
RoomsPartition ==
  /\ ~HasStray
  /\ \A c \in Grid(Rows, Cols) :
       Cardinality({kp \in (1..Len(rooms)) \X (1..MaxCells + 1) :
                      kp[2] <= Len(rooms[kp[1]]) /\ rooms[kp[1]][kp[2]] = c}) = 1

\* The size of the room that owns a grid cell (under RoomsPartition).
RoomSizeOf(c) == Len(rooms[CHOOSE k \in 1..Len(rooms) : c \in Range(rooms[k])])

VariablesMade == pc \in {"made_variables", "made_room_cons", "made_space_cons", "returned"}

RoomConsMade == pc \in {"made_room_cons", "made_space_cons", "returned"}

SpaceConsMade == pc \in {"made_space_cons", "returned"}

\* The scope positions (1-based) of a room whose cells carry a clue.
FixedPositions(room) == {p \in 1..Len(room) : ClueAt(room[p]) # 0}

\* The clues of a room are pairwise distinct values in 1..|room|.
ConsistentClues(room) ==
  /\ \A p \in FixedPositions(room) : ClueAt(room[p]) \in 1..Len(room)
  /\ \A p, q \in FixedPositions(room) : p # q => ClueAt(room[p]) # ClueAt(room[q])

\* The permutations of 1..k that carry each clue of the room at its own
\* scope position.
ExpectedRoomTable(room) ==
  {t \in [1..Len(room) -> 1..Len(room)] :
     /\ \A p, q \in 1..Len(room) : p # q => t[p] # t[q]
     /\ \A p \in FixedPositions(room) : t[p] = ClueAt(room[p])}

\* C1: for every room of size k whose f clue cells hold pairwise distinct
\* values in 1..k, the table built by room_constraint is exactly the set of
\* permutations of 1..k that carry each clue at its scope position; it lists
\* (k-f)! tuples, all different.
C1_RoomTableIsFixedPermutations ==
  (RoomConsMade /\ RoomsPartition) =>
    \A k \in 1..Len(rooms) :
      ConsistentClues(rooms[k]) =>
        /\ room_cons[k].scope = rooms[k]
        /\ Table(room_cons[k]) = ExpectedRoomTable(rooms[k])
        /\ Len(room_cons[k].sat_tuples)
             = Factorial(Len(rooms[k]) - Cardinality(FixedPositions(rooms[k])))
        /\ Cardinality(Table(room_cons[k])) = Len(room_cons[k].sat_tuples)

\* A room of three cells with one clue, not at the last scope position, has
\* got its table of two tuples.
C1_Witness ==
  /\ pc = "made_room_cons"
  /\ RoomsPartition
  /\ \E k \in 1..Len(rooms) :
       /\ Len(rooms[k]) = 3
       /\ ConsistentClues(rooms[k])
       /\ \E p \in 1..2 : FixedPositions(rooms[k]) = {p}
       /\ Len(room_cons[k].sat_tuples) = 2

\* The index distance of two cells on one row or one column.
SameAxis(x, y) == x # y /\ (x[1] = y[1] \/ x[2] = y[2])

Distance(x, y) == Abs(x[1] - y[1]) + Abs(x[2] - y[2])

\* All pairs over 1..R but the equal pairs (v, v) with v >= d.
ExpectedSpaceTable(R, d) == ((1..R) \X (1..R)) \ {<<v, v>> : v \in d..R}

\* C2: every spatial constraint is over two cells of one row or column at a
\* distance d in 1..R, and its table is {1..R} x {1..R} minus the equal
\* pairs (v, v) with v >= d: R*R - (R - d + 1) tuples.
C2_SpaceTableExcludesCloseEquals ==
  SpaceConsMade =>
    \A q \in 1..Len(space_cons) :
      LET con == space_cons[q]
          R   == MaxRoomSize(rooms)
          d   == Distance(con.scope[1], con.scope[2])
      IN  /\ SameAxis(con.scope[1], con.scope[2])
          /\ d \in 1..R
          /\ Table(con) = ExpectedSpaceTable(R, d)
          /\ Cardinality(Table(con)) = R * R - (R - d + 1)
          /\ Len(con.sat_tuples) = R * R - (R - d + 1)

\* With R = 3, a pair at distance 3 has its table of 8 tuples and a pair at
\* distance 1 its table of 6.
C2_Witness ==
  /\ pc = "made_space_cons"
  /\ MaxRoomSize(rooms) = 3
  /\ \E q \in 1..Len(space_cons) :
       /\ Distance(space_cons[q].scope[1], space_cons[q].scope[2]) = 3
       /\ Cardinality(Table(space_cons[q])) = 8
  /\ \E q \in 1..Len(space_cons) :
       /\ Distance(space_cons[q].scope[1], space_cons[q].scope[2]) = 1
       /\ Cardinality(Table(space_cons[q])) = 6

\* The number of spatial constraints whose scope is (x, y), in that order.
ScopeCount(x, y) == Cardinality({q \in 1..Len(space_cons) : space_cons[q].scope = <<x, y>>})

\* C3: each ordered pair of distinct cells of one row or column at index
\* distance <= R is the scope of exactly one spatial constraint, every other
\* ordered pair of cells is the scope of none, and there are no further
\* spatial constraints.
C3_OneConstraintPerOrderedPair ==
  SpaceConsMade =>
    LET R == MaxRoomSize(rooms)
        G == Grid(Rows, Cols)
        near == {xy \in G \X G : SameAxis(xy[1], xy[2]) /\ Distance(xy[1], xy[2]) <= R}
    IN  /\ \A xy \in G \X G : ScopeCount(xy[1], xy[2]) = IF xy \in near THEN 1 ELSE 0
        /\ Len(space_cons) = Cardinality(near)

\* A grid with an axis longer than R + 1: a pair at distance > R has no
\* constraint, a pair at distance <= R has one in each scope order.
C3_Witness ==
  /\ pc = "made_space_cons"
  /\ \E x, y \in Grid(Rows, Cols) :
       /\ SameAxis(x, y)
       /\ Distance(x, y) > MaxRoomSize(rooms)
       /\ ScopeCount(x, y) = 0
  /\ \E x, y \in Grid(Rows, Cols) :
       /\ SameAxis(x, y)
       /\ ScopeCount(x, y) = 1
       /\ ScopeCount(y, x) = 1

\* C4: when the rooms partition the grid, make_variable returns an N x M
\* grid in which a cell without a clue is unassigned with domain exactly
\* 1..|room|, and a cell with a clue is assigned the clue with the singleton
\* domain of the clue.
C4_VariablesFollowRoomsAndClues ==
  (VariablesMade /\ RoomsPartition) =>
    /\ DOMAIN var_array = Grid(Rows, Cols)
    /\ \A c \in Grid(Rows, Cols) :
         IF ClueAt(c) = 0
         THEN /\ ~is_assigned(var_array[c])
              /\ Range(var_array[c].domain) = 1..RoomSizeOf(c)
         ELSE /\ is_assigned(var_array[c])
              /\ get_assigned_value(var_array[c]) = ClueAt(c)
              /\ Range(var_array[c].domain) = {ClueAt(c)}

\* A grid made from a partition with a clue cell and, in a room of two or
\* more cells, a cell without a clue.
C4_Witness ==
  /\ pc = "made_variables"
  /\ RoomsPartition
  /\ \E c \in Grid(Rows, Cols) : ClueAt(c) # 0 /\ var_array[c].domain = <<ClueAt(c)>>
  /\ \E c \in Grid(Rows, Cols) :
       /\ ClueAt(c) = 0
       /\ RoomSizeOf(c) >= 2
       /\ Len(var_array[c].domain) = RoomSizeOf(c)

\* Some cell carries a clue greater than the size of its room.
OutOfRangeClue == \E c \in Grid(Rows, Cols) : ClueAt(c) > RoomSizeOf(c)

\* Two cells of one room carry the same clue.
DuplicateClue ==
  \E k \in 1..Len(rooms) : \E p, q \in FixedPositions(rooms[k]) :
    p # q /\ ClueAt(rooms[k][p]) = ClueAt(rooms[k][q])

\* C5: a clue greater than its room's size is accepted silently: the
\* construction does not raise, and the returned grid holds that cell with
\* the singleton domain of the clue.  (Stated for inputs whose only defect
\* is the out-of-range clue.)
C5_OutOfRangeClueAccepted ==
  (RoomsPartition /\ OutOfRangeClue /\ ~DuplicateClue) =>
    /\ pc # "raised"
    /\ pc = "returned" =>
         \A c \in Grid(Rows, Cols) :
           ClueAt(c) > RoomSizeOf(c) => Range(var_array[c].domain) = {ClueAt(c)}

\* C6: room_constraint signals no failure for a room in which two cells
\* carry the same clue: the construction does not raise.  (Stated for inputs
\* whose clues all lie within their room's range.)
C6_ConflictingCluesAccepted ==
  (RoomsPartition /\ DuplicateClue /\ ~OutOfRangeClue) => pc # "raised"

\* C7: if a room names a coordinate outside the grid, the construction fails
\* at once, in make_variable, with an out-of-bounds condition (IndexError);
\* it never goes on with that coordinate mapped onto a grid cell.
C7_StrayCoordinateFailsAtOnce ==
  HasStray => (pc = "start" \/ (pc = "raised" /\ err = Raised("IndexError", "make_variable")))

IsRowCon(con) == con.scope[1][1] = con.scope[2][1]

IsColCon(con) == con.scope[1][2] = con.scope[2][2]

\* C9: the returned model holds every variable in row-major order, every
\* room in input order, then one room constraint per room in room order
\* (named C1..Cn, over the room's cells), then every spatial constraint, all
\* row constraints before all column constraints; nothing is dropped or
\* merged, and every scope variable is a registered variable.
C9_RegistrationOrder ==
  pc = "returned" =>
    LET nr == Len(rooms)
    IN  /\ csp.vars = [k \in 1..(Rows * Cols) |-> CellOf(k, Cols)]
        /\ csp.rooms = rooms
        /\ Len(csp.cons) = nr + Len(space_cons)
        /\ \A k \in 1..nr :
             /\ csp.cons[k] = room_cons[k]
             /\ csp.cons[k].name = <<"C", k>>
             /\ csp.cons[k].scope = rooms[k]
        /\ \A q \in 1..Len(space_cons) :
             /\ csp.cons[nr + q] = space_cons[q]
             /\ Len(csp.cons[nr + q].scope) = 2
             /\ IsRowCon(space_cons[q]) \/ IsColCon(space_cons[q])
             /\ \A q2 \in (q + 1)..Len(space_cons) :
                  ~(IsColCon(space_cons[q]) /\ IsRowCon(space_cons[q2]))
        /\ \A q \in 1..Len(csp.cons) : Range(csp.cons[q].scope) \subseteq Range(csp.vars)

\* A returned model of a grid with two rows and two columns and at least two
\* rooms: it holds row and column constraints after the room constraints.
C9_Witness ==
  /\ pc = "returned"
  /\ Rows = 2
  /\ Cols = 2
  /\ Len(rooms) >= 2
  /\ \E q \in 1..Len(space_cons) : IsRowCon(space_cons[q])
  /\ \E q \in 1..Len(space_cons) : IsColCon(space_cons[q])
  /\ Len(csp.cons) = Len(rooms) + Len(space_cons)

\* The input is well formed: the rooms partition the grid and the clues of
\* each room are pairwise distinct values in 1..|room|.
WellFormed == RoomsPartition /\ \A k \in 1..Len(rooms) : ConsistentClues(rooms[k])

\* The complete assignments that give each of the listed cells a value of
\* its variable's domain.
RECURSIVE AssignmentsOver(_)
AssignmentsOver(cells) ==
  IF cells = {} THEN {<<>>}
  ELSE LET c == CHOOSE x \in cells : TRUE
       IN  {(c :> v) @@ a : v \in Range(var_array[c].domain), a \in AssignmentsOver(cells \ {c})}

\* The assignment's values along the scope are a tuple of the table.
Satisfies(a, con) == [p \in 1..Len(con.scope) |-> a[con.scope[p]]] \in Table(con)

SatisfiesAll(a) == \A q \in 1..Len(csp.cons) : Satisfies(a, csp.cons[q])

\* The rules of the puzzle: the clues are kept, a room of k cells holds each
\* of 1..k exactly once, and equal values v on one row or column are more
\* than v apart.
IsRippleSolution(a) ==
  /\ \A c \in Grid(Rows, Cols) : ClueAt(c) # 0 => a[c] = ClueAt(c)
  /\ \A k \in 1..Len(rooms) : \A v \in 1..Len(rooms[k]) :
       Cardinality({p \in 1..Len(rooms[k]) : a[rooms[k][p]] = v}) = 1
  /\ \A x, y \in Grid(Rows, Cols) :
       (SameAxis(x, y) /\ a[x] = a[y]) => Distance(x, y) > a[x]

\* C10: for a well-formed input, a complete assignment of domain values
\* satisfies every constraint of the returned model if and only if it is a
\* Ripple Effect solution.
C10_ConstraintsCharacteriseSolutions ==
  (pc = "returned" /\ WellFormed) =>
    \A a \in AssignmentsOver(Grid(Rows, Cols)) : SatisfiesAll(a) <=> IsRippleSolution(a)

\* A returned model of a well-formed input with a clue, for which one
\* assignment is a solution satisfying every constraint and another
\* assignment is neither.
C10_Witness ==
  /\ pc = "returned"
  /\ WellFormed
  /\ Len(rooms) >= 2
  /\ \E c \in Grid(Rows, Cols) : ClueAt(c) # 0
  /\ \E a \in AssignmentsOver(Grid(Rows, Cols)) : SatisfiesAll(a) /\ IsRippleSolution(a)
  /\ \E a \in AssignmentsOver(Grid(Rows, Cols)) : ~SatisfiesAll(a) /\ ~IsRippleSolution(a)

====
